---- MODULE Spec2Model ----
(***************************************************************************)
(* Model of the screen locker's Application controller                     *)
(* (src/screenlocker/application.cpp): the per-screen overlay views, the   *)
(* handlers for screen changes, the application-wide event filter with the *)
(* key-event forwarding of shareEvent, and the unlock path of onSucceeded. *)
(*                                                                         *)
(* The program is single-threaded: every handler runs to completion inside *)
(* the GUI event loop.  Queued connections, queued invocations and         *)
(* deleteLater post entries to the event queue, which the loop delivers in *)
(* FIFO order.  shareEvent runs inside eventFilter; its deliveries through *)
(* sendEvent re-enter the event machinery and are followed recursively.    *)
(***************************************************************************)
EXTENDS Integers, Sequences, FiniteSets, TLC

\* ---------------------------------------------------------------- bounds
MaxScreens    == 2   \* most screens connected at once
MaxScreenObjs == 3   \* QScreen objects ever created
MaxViewObjs   == 3   \* QQuickView objects ever created
MaxQueue      == 2   \* posted events waiting in the event loop
MaxSucceeded  == 1   \* emissions of Authenticator::succeeded
MaxDepth      == 2   \* nesting of shareEvent calls that is followed
MaxEvents     == 3   \* events the environment produces in one run

ScreenIds == 1..MaxScreenObjs
ViewIds   == 1..MaxViewObjs
NoView    == 0       \* nullptr for QQuickView* / QWindow*
NoScreen  == 0       \* nullptr for QScreen*
OtherObj  == -1      \* a QObject that is not a QQuickView (an item, ...)
AppObj    == -2      \* the Application object itself

\* ------------------------------------------------------------- geometry
Rect(x, y, w, h) == [x |-> x, y |-> y, w |-> w, h |-> h]
NullRect == Rect(0, 0, 0, 0)
\* geometries a screen can have: two monitors side by side
ScreenGeos == {Rect(0, 0, 1, 1), Rect(1, 0, 1, 1)}
\* positions QCursor::pos() can report
CursorPositions == {<<0, 0>>, <<1, 0>>, <<5, 5>>}

\* QRect::contains(QPoint)
Contains(r, p) ==
    /\ r.w > 0 /\ r.h > 0
    /\ r.x <= p[1] /\ p[1] <= r.x + r.w - 1
    /\ r.y <= p[2] /\ p[2] <= r.y + r.h - 1

\* --------------------------------------------------------------- state
VARIABLES
    screens,          \* QGuiApplication::screens(); the first is the primary
    screenObj,        \* per QScreen object: exists, geometry, connections
    nextScreen,       \* next fresh QScreen identity
    m_views,          \* Application::m_views
    view,             \* per QQuickView object: its window state
    nextView,         \* next fresh QQuickView identity
    m_testing,        \* Application::m_testing
    setupDone,        \* main has called initialViewSetup
    filterInstalled,  \* the application object filters its own events
    queue,            \* posted events of the event loop, FIFO
    anis,             \* running QVariantAnimations started by onSucceeded
    succeeded,        \* emissions of Authenticator::succeeded so far
    proc,             \* "running", "exited" (exit called), "crashed"
    events,           \* events the environment has produced so far
    lastCall          \* the handler that ran last and what it did

vars == <<screens, screenObj, nextScreen, m_views, view, nextView, m_testing,
          setupDone, filterInstalled, queue, anis, succeeded, proc, events,
          lastCall>>

NoSent  == [v \in ViewIds |-> 0]

\* op: the handler; flag: it warned (screenGeometryChanged), returned true
\* (eventFilter), activated a window (getFocus); view: the view it was
\* about; type, key: the event eventFilter saw; sent: the deliveries
\* sendEvent made for that event, per view; kept: the event left
\* eventFilter with the accepted flag it came with
Call(op) == [op |-> op, flag |-> FALSE, view |-> NoView, type |-> "None",
             key |-> "Other", sent |-> NoSent, kept |-> TRUE]

NoScreenObj == [alive |-> FALSE, geometry |-> NullRect, conns |-> 0]
NoViewObj   == [state |-> "unborn", geometry |-> NullRect, screen |-> NoScreen,
                grab |-> FALSE, visible |-> FALSE, conn |-> FALSE]
\* a destroyed QQuickView: its window, grab and connections are gone
DeadViewObj == [NoViewObj EXCEPT !.state = "deleted"]

Range(s) == {s[i] : i \in 1..Len(s)}

\* QList::indexOf, 0-based, -1 when absent
IndexOf(s, x) ==
    IF x \in Range(s) THEN (CHOOSE i \in 1..Len(s) : s[i] = x /\ \A j \in 1..(i-1) : s[j] # x) - 1
    ELSE -1

\* a screen Qt has taken out of screens() and not destroyed yet
Removing(s) == screenObj[s].alive /\ s \notin Range(screens)

\* the event loop is between two handlers
Idle == proc = "running" /\ \A s \in ScreenIds : ~Removing(s)

\* the environment may produce another event
MoreEvents == events < MaxEvents

\* ------------------------------------------------------------------ Init
\* The state after the constructor (lines 35-52): the screens Qt found at
\* start-up exist, no view exists, the event filter is installed, nothing is
\* posted.  The initial screens have no geometryChanged connection yet.
InitScreens(n) ==
    [s \in ScreenIds |-> IF s = 1 /\ n >= 1 THEN [alive |-> TRUE, geometry |-> Rect(0, 0, 1, 1), conns |-> 0]
                         ELSE IF s = 2 /\ n >= 2 THEN [alive |-> TRUE, geometry |-> Rect(1, 0, 1, 1), conns |-> 0]
                         ELSE NoScreenObj]

Init ==
    /\ \E n \in 1..2 :
          /\ screens = [i \in 1..n |-> i]
          /\ screenObj = InitScreens(n)
          /\ nextScreen = n + 1
    /\ m_views = <<>>
    /\ view = [v \in ViewIds |-> NoViewObj]
    /\ nextView = 1
    /\ m_testing \in BOOLEAN
    /\ setupDone = FALSE
    /\ filterInstalled = TRUE
    /\ queue = <<>>
    /\ anis = {}
    /\ succeeded = 0
    /\ proc = "running"
    /\ events = 0
    /\ lastCall = Call("constructor")

\* -------------------------------------------------------- desktopResized
\* a loop that stops one view too late
TakeLastViews_OffByOne(vs, n) == IF Len(vs) > n + 1 THEN SubSeq(vs, 1, n + 1) ELSE vs

\* a loop that takes the views off the front
TakeLastViews_TakeFirst(vs, n) ==
    IF Len(vs) > n THEN SubSeq(vs, Len(vs) - n + 1, Len(vs)) ELSE vs

\* lines 81-83: while (m_views.count() > nScreens) m_views.takeLast()
TakeLastViews(vs, n) == IF Len(vs) > n THEN SubSeq(vs, 1, n) ELSE vs

\* the views taken off by that loop, in the order of their deleteLater()
TakenViews(vs, kept) ==
    [i \in 1..(Len(vs) - Len(kept)) |-> vs[Len(vs) - i + 1]]

\* lines 86-118: one new QQuickView for every index from m_views.count()
NewViews(kept, n, nv) ==
    IF n > Len(kept) THEN [i \in 1..(n - Len(kept)) |-> nv + i - 1] ELSE <<>>

\* lines 99-100, 113: a new view gets the geometry of screens()[i]
CreatedView(scr, sobj, i) ==
    [state |-> "live", geometry |-> sobj[scr[i]].geometry, screen |-> NoScreen,
     grab |-> FALSE, visible |-> FALSE, conn |-> TRUE]

\* a loop that shows the view without moving it to its screen
ShowOnScreen_NoSetScreen(vw, scr, i) == vw

\* lines 121-134: view i is put on screens()[i], shown and raised
ShowOnScreen(vw, scr, i) == [vw EXCEPT !.screen = scr[i]]

\* bounds of the model: enough fresh views and room in the event queue
CanResize(scr) ==
    /\ nextView + Len(NewViews(TakeLastViews(m_views, Len(scr)), Len(scr), nextView)) - 1 <= MaxViewObjs
    /\ Len(queue) + Len(TakenViews(m_views, TakeLastViews(m_views, Len(scr)))) <= MaxQueue

\* Application::desktopResized, called with screens() = scr
DesktopResized(scr, sobj) ==
    LET n     == Len(scr)
        kept  == TakeLastViews(m_views, n)
        taken == TakenViews(m_views, kept)
        fresh == NewViews(kept, n, nextView)
        all   == kept \o fresh
        made  == [v \in ViewIds |->
                    IF v \in Range(fresh) THEN CreatedView(scr, sobj, IndexOf(all, v) + 1)
                    ELSE view[v]]
    IN  /\ m_views' = all
        /\ nextView' = nextView + Len(fresh)
        /\ queue' = queue \o [i \in 1..Len(taken) |-> [type |-> "deferredDelete", view |-> taken[i]]]
        /\ view' = [v \in ViewIds |->
                      IF v \in Range(all) /\ IndexOf(all, v) < n
                      THEN ShowOnScreen(made[v], scr, IndexOf(all, v) + 1)
                      ELSE made[v]]

\* lines 68-72, 141-143: connect(screen, &QScreen::geometryChanged, ...)
ConnectGeometryChanged(sobj, ss) ==
    [s \in ScreenIds |-> IF s \in ss THEN [sobj[s] EXCEPT !.conns = @ + 1] ELSE sobj[s]]

\* Application::initialViewSetup, called once by main
InitialViewSetup ==
    /\ Idle
    /\ ~setupDone
    /\ CanResize(screens)
    /\ setupDone' = TRUE
    /\ screenObj' = ConnectGeometryChanged(screenObj, Range(screens))
    /\ DesktopResized(screens, screenObj')
    /\ lastCall' = Call("initialViewSetup")
    /\ UNCHANGED <<screens, nextScreen, m_testing, filterInstalled, anis,
                   succeeded, proc, events>>

\* Qt adds a screen (first in screens() when it is the primary one, last
\* otherwise) and emits screenAdded: Application::onScreenAdded
ScreenAdded(g, primary) ==
    /\ Idle
    /\ MoreEvents
    /\ events' = events + 1
    /\ Len(screens) < MaxScreens
    /\ nextScreen <= MaxScreenObjs
    /\ LET s   == nextScreen
           scr == IF primary THEN <<s>> \o screens ELSE screens \o <<s>>
       IN  /\ CanResize(scr)
           /\ screens' = scr
           /\ nextScreen' = nextScreen + 1
           /\ screenObj' = ConnectGeometryChanged(
                  [screenObj EXCEPT ![s] = [alive |-> TRUE, geometry |-> g, conns |-> 0]], {s})
           /\ DesktopResized(scr, screenObj')
           /\ lastCall' = Call("onScreenAdded")
    /\ UNCHANGED <<m_testing, setupDone, filterInstalled, anis, succeeded, proc>>

RemoveAt(s, i) == [j \in 1..(Len(s) - 1) |-> IF j < i THEN s[j] ELSE s[j + 1]]

\* Qt takes a screen out of screens() and emits screenRemoved, which is
\* connected to Application::desktopResized (line 46)
ScreenRemoved(i) ==
    /\ Idle
    /\ MoreEvents
    /\ events' = events + 1
    /\ i \in 1..Len(screens)
    /\ LET scr == RemoveAt(screens, i)
       IN  /\ CanResize(scr)
           /\ screens' = scr
           /\ DesktopResized(scr, screenObj)
           /\ lastCall' = Call("desktopResized")
    /\ UNCHANGED <<screenObj, nextScreen, m_testing, setupDone, filterInstalled,
                   anis, succeeded, proc>>

\* the QScreen object of a removed screen is destroyed; its connections go
ScreenDestroyed(s) ==
    /\ proc = "running"
    /\ Removing(s)
    /\ screenObj' = [screenObj EXCEPT ![s] = NoScreenObj]
    /\ lastCall' = Call("none")
    /\ UNCHANGED <<screens, nextScreen, m_views, view, nextView, m_testing,
                   setupDone, filterInstalled, queue, anis, succeeded, proc,
                   events>>

\* Qt makes another screen the primary one: it swaps it to the front of
\* screens().  The controller has no handler for this (lines 306-309).
PrimaryChanged(i) ==
    /\ Idle
    /\ MoreEvents
    /\ events' = events + 1
    /\ i \in 2..Len(screens)
    /\ screens' = [screens EXCEPT ![1] = screens[i], ![i] = screens[1]]
    /\ lastCall' = Call("none")
    /\ UNCHANGED <<screenObj, nextScreen, m_views, view, nextView, m_testing,
                   setupDone, filterInstalled, queue, anis, succeeded, proc>>

\* ------------------------------------------------- screenGeometryChanged
\* a lookup that falls back to the first screen for an unknown one
GeometryScreenIndex_Fallback(scr, s) == IF s \in Range(scr) THEN IndexOf(scr, s) ELSE 0

\* a lookup that keeps the index the screen had when Qt created it
GeometryScreenIndex_AtConnect(scr, s) == s - 1

\* line 310: QGuiApplication::screens().indexOf(screen)
GeometryScreenIndex(scr, s) == IndexOf(scr, s)

\* lines 311-319: the two guards that warn and return
GeometryGuard(idx, nViews) == idx < 0 \/ idx >= nViews

\* lines 321-322: m_views[screenIndex]->setGeometry(geo)
SetViewGeometry(vw, vs, idx, g) ==
    IF idx \in 0..(Len(vs) - 1) THEN [vw EXCEPT ![vs[idx + 1]].geometry = g] ELSE vw

\* Application::screenGeometryChanged
ScreenGeometryChanged(s, g) ==
    LET idx == GeometryScreenIndex(screens, s)
    IN  IF GeometryGuard(idx, Len(m_views))
        THEN /\ view' = view
             /\ lastCall' = [Call("screenGeometryChanged") EXCEPT !.flag = TRUE]
        ELSE /\ view' = SetViewGeometry(view, m_views, idx, g)
             /\ lastCall' = Call("screenGeometryChanged")

\* a QScreen changes its geometry and emits geometryChanged; every
\* connection made for it calls screenGeometryChanged(screen, geo)
GeometryChanged(s, g) ==
    /\ proc = "running"
    /\ MoreEvents
    /\ events' = events + 1
    /\ screenObj[s].alive
    /\ \A t \in ScreenIds : Removing(t) => t = s
    /\ g # screenObj[s].geometry
    /\ screenObj' = [screenObj EXCEPT ![s].geometry = g]
    /\ IF screenObj[s].conns > 0
       THEN ScreenGeometryChanged(s, g)
       ELSE view' = view /\ lastCall' = Call("none")
    /\ UNCHANGED <<screens, nextScreen, m_views, nextView, m_testing, setupDone,
                   filterInstalled, queue, anis, succeeded, proc>>

\* ------------------------------------------------------- the event loop
Post(q, type, v) == q \o <<[type |-> type, view |-> v]>>

\* a connection made to every signal of the authenticator
OnAuthenticatorSignal_Any(q, sig) == Post(q, "onSucceeded", NoView)

\* line 40: Authenticator::succeeded is connected to onSucceeded, queued;
\* no other signal of the authenticator is connected
OnAuthenticatorSignal(q, sig) ==
    IF sig = "succeeded" THEN Post(q, "onSucceeded", NoView) ELSE q

\* line 115: a view swaps a frame; frameSwapped is connected, queued, to
\* markViewsAsVisible(view) until markViewsAsVisible disconnects it
FrameSwapped(v) ==
    /\ Idle
    /\ MoreEvents
    /\ events' = events + 1
    /\ view[v].state = "live"
    /\ view[v].conn
    /\ Len(queue) < MaxQueue
    /\ queue' = Post(queue, "markViewsAsVisible", v)
    /\ lastCall' = Call("none")
    /\ UNCHANGED <<screens, screenObj, nextScreen, m_views, view, nextView,
                   m_testing, setupDone, filterInstalled, anis, succeeded, proc>>

\* line 82: the event loop handles the DeferredDelete of deleteLater()
DeferredDelete ==
    /\ Idle
    /\ queue # <<>>
    /\ Head(queue).type = "deferredDelete"
    /\ queue' = Tail(queue)
    /\ view' = [view EXCEPT ![Head(queue).view] = DeadViewObj]
    /\ lastCall' = [Call("deferredDelete") EXCEPT !.view = Head(queue).view]
    /\ UNCHANGED <<screens, screenObj, nextScreen, m_views, nextView, m_testing,
                   setupDone, filterInstalled, anis, succeeded, proc, events>>

\* ----------------------------------------------------------- onSucceeded
\* QGuiApplication::primaryScreen(): the first screen, or nullptr
PrimaryScreen(scr) == IF scr = <<>> THEN NoScreen ELSE scr[1]

\* lines 150-158: the first view whose screen() is the primary screen
MainView(vs, vw, scr) ==
    LET hits == {i \in 1..Len(vs) : vw[vs[i]].screen = PrimaryScreen(scr)}
    IN  IF hits = {} THEN NoView
        ELSE vs[CHOOSE i \in hits : \A j \in hits : i <= j]

\* lines 161-175: the slide-out animation of mainView, from y to y - height
SlideOut(v, geo) == [view |-> v, from |-> geo.y, to |-> geo.y + (0 - geo.h)]

\* lines 150-178: the body of Application::onSucceeded
RunOnSucceeded ==
    LET mainView == MainView(m_views, view, screens)
    IN  IF mainView # NoView
        THEN /\ anis' = anis \cup {SlideOut(mainView, view[mainView].geometry)}
             /\ proc' = proc
             /\ lastCall' = [Call("onSucceeded") EXCEPT !.view = mainView]
        ELSE /\ anis' = anis
             /\ proc' = "exited"
             /\ lastCall' = Call("onSucceeded")

\* Application::onSucceeded, delivered by the event loop
OnSucceeded ==
    /\ Idle
    /\ queue # <<>>
    /\ Head(queue).type = "onSucceeded"
    /\ queue' = Tail(queue)
    /\ RunOnSucceeded
    /\ UNCHANGED <<screens, screenObj, nextScreen, m_views, view, nextView,
                   m_testing, setupDone, filterInstalled, succeeded, events>>

\* a connection of the default type: the slot runs inside the emission
SucceededConnection_Direct == "direct"

\* line 40: the connection to onSucceeded is a Qt::QueuedConnection
SucceededConnection == "queued"

\* The authenticator emits one of its signals.  The slots connected to it
\* run in the order of their connection: the controller's connection, made
\* in the constructor, comes before any made by the QML of a view.  A queued
\* connection posts the call; a direct one would run the slot at once,
\* before the QML handlers of the same emission.
AuthenticatorSignal(sig) ==
    /\ Idle
    /\ MoreEvents
    /\ events' = events + 1
    /\ Len(queue) < MaxQueue
    /\ sig = "succeeded" => succeeded < MaxSucceeded
    /\ succeeded' = IF sig = "succeeded" THEN succeeded + 1 ELSE succeeded
    /\ IF SucceededConnection = "queued"
       THEN /\ queue' = OnAuthenticatorSignal(queue, sig)
            /\ lastCall' = [Call("none") EXCEPT !.flag = (sig = "succeeded")]
            /\ UNCHANGED <<anis, proc>>
       ELSE /\ queue' = queue
            /\ IF OnAuthenticatorSignal(queue, sig) # queue
               THEN RunOnSucceeded
               ELSE lastCall' = Call("none") /\ UNCHANGED <<anis, proc>>
    /\ UNCHANGED <<screens, screenObj, nextScreen, m_views, view, nextView,
                   m_testing, setupDone, filterInstalled>>

\* lines 163-165: valueChanged calls mainView->setY(value).  The lambda has
\* no context object and holds the raw pointer: when the view has been
\* destroyed the call is a use after free, which either goes unnoticed or
\* ends the process
SetY(vw, v, y) == [vw EXCEPT ![v].geometry.y = y]

AnimationValueChanged(a, y, crash) ==
    IF view[a.view].state = "deleted"
    THEN /\ view' = view
         /\ proc' = IF crash THEN "crashed" ELSE proc
    ELSE /\ view' = SetY(view, a.view, y)
         /\ proc' = proc

\* the animation advances: an interpolated value between start and end
AnimationStep(a, y, crash) ==
    /\ Idle
    /\ a \in anis
    /\ y \in a.to..a.from
    /\ AnimationValueChanged(a, y, crash)
    /\ lastCall' = [Call("valueChanged") EXCEPT !.view = a.view]
    /\ UNCHANGED <<screens, screenObj, nextScreen, m_views, nextView, m_testing,
                   setupDone, filterInstalled, queue, anis, succeeded, events>>

\* lines 167-169: after its 500 ms the animation reports the end value and
\* emits finished, whose handler calls QCoreApplication::exit()
AnimationFinished(a, crash) ==
    /\ Idle
    /\ a \in anis
    /\ anis' = anis \ {a}
    /\ IF view[a.view].state = "deleted" /\ crash
       THEN view' = view /\ proc' = "crashed"
       ELSE /\ view' = IF view[a.view].state = "deleted" THEN view ELSE SetY(view, a.view, a.to)
            /\ proc' = "exited"
    /\ lastCall' = [Call("finished") EXCEPT !.view = a.view]
    /\ UNCHANGED <<screens, screenObj, nextScreen, m_views, nextView, m_testing,
                   setupDone, filterInstalled, queue, succeeded, events>>

\* ------------------------------------------------- getFocus and friends
\* a search that keeps the last view containing the cursor
GetActiveScreen_Last(vs, vw, c) ==
    IF vs = <<>> THEN NoView
    ELSE LET hits == {i \in 1..Len(vs) : Contains(vw[vs[i]].geometry, c)}
         IN  IF hits = {} THEN vs[1]
             ELSE vs[CHOOSE i \in hits : \A j \in hits : i >= j]

\* Application::getActiveScreen, with QCursor::pos() = c
GetActiveScreen(vs, vw, c) ==
    IF vs = <<>> THEN NoView
    ELSE LET hits == {i \in 1..Len(vs) : Contains(vw[vs[i]].geometry, c)}
         IN  IF hits = {} THEN vs[1]
             ELSE vs[CHOOSE i \in hits : \A j \in hits : i <= j]

\* a grab that is moved to the active view and taken from the others
GrabKeyboard_OnlyActive(vw, vs, active, testing) ==
    [v \in ViewIds |-> IF ~testing /\ vw[v].state = "live"
                       THEN [vw[v] EXCEPT !.grab = (v = active)] ELSE vw[v]]

\* a getFocus that grabs the keyboard in testing mode too
GrabKeyboard_IgnoreTesting(vw, vs, active, testing) ==
    [v \in ViewIds |-> IF v \in Range(vs) \/ v = active
                       THEN [vw[v] EXCEPT !.grab = TRUE] ELSE vw[v]]

\* lines 191-201: setKeyboardGrabEnabled(true) on every view and on the
\* active one, unless testing
GrabKeyboard(vw, vs, active, testing) ==
    [v \in ViewIds |-> IF ~testing /\ (v \in Range(vs) \/ v = active)
                       THEN [vw[v] EXCEPT !.grab = TRUE] ELSE vw[v]]

\* Application::getFocus, invoked through the event loop (line 213)
GetFocus(c) ==
    /\ Idle
    /\ queue # <<>>
    /\ Head(queue).type = "getFocus"
    /\ queue' = Tail(queue)
    /\ LET activeScreen == GetActiveScreen(m_views, view, c)
       IN  IF activeScreen = NoView
           THEN view' = view /\ lastCall' = Call("getFocus")
           ELSE /\ view' = GrabKeyboard(view, m_views, activeScreen, m_testing)
                /\ lastCall' = [Call("getFocus") EXCEPT !.view = activeScreen, !.flag = TRUE]
    /\ UNCHANGED <<screens, screenObj, nextScreen, m_views, nextView, m_testing,
                   setupDone, filterInstalled, anis, succeeded, proc, events>>

\* lines 208-210: disconnect frameSwapped, write viewVisible = true
MarkVisible(vw, v) == [vw EXCEPT ![v].conn = FALSE, ![v].visible = TRUE]

\* Application::markViewsAsVisible(view), delivered by the event loop.  The
\* queued call holds the raw pointer: on a destroyed view it is a use after
\* free, which either goes unnoticed or ends the process
MarkViewsAsVisible(crash) ==
    /\ Idle
    /\ queue # <<>>
    /\ Head(queue).type = "markViewsAsVisible"
    /\ LET v == Head(queue).view
       IN  /\ IF view[v].state = "deleted"
              THEN /\ view' = view
                   /\ proc' = IF crash THEN "crashed" ELSE proc
              ELSE /\ view' = MarkVisible(view, v)
                   /\ proc' = proc
           /\ queue' = Post(Tail(queue), "getFocus", NoView)
           /\ lastCall' = [Call("markViewsAsVisible") EXCEPT !.view = v]
    /\ UNCHANGED <<screens, screenObj, nextScreen, m_views, nextView, m_testing,
                   setupDone, filterInstalled, anis, succeeded, events>>

\* ------------------------------------------------------------ eventFilter
EventTypes == {"Show", "MouseButtonPress", "KeyPress", "KeyRelease", "Other"}
Keys       == {"Escape", "Other"}

\* the events the window system delivers; only a key event carries a key
Events ==
    {e \in [type : EventTypes, key : Keys, accepted : BOOLEAN] :
        e.type \notin {"KeyPress", "KeyRelease"} => (e.key = "Other" /\ e.accepted)}

\* what the views of vs can do to the accepted flag of an event they handle
Acceptances(vs) ==
    {acc \in [ViewIds -> BOOLEAN] : \A v \in ViewIds \ Range(vs) : acc[v]}

\* the objects an event can be addressed to
Receivers == ViewIds \cup {OtherObj, AppObj}

\* qobject_cast<QQuickView *>(obj)
AsView(obj) == IF obj \in ViewIds THEN obj ELSE NoView

\* lines 247-257: the events eventFilter hands to shareEvent
Shares(e) ==
    \/ e.type = "KeyPress"
    \/ e.type = "KeyRelease" /\ e.key # "Escape"

\* a filter that swallows Escape on press as well as on release
FilterResult_AnyEscape(obj, e) ==
    e.type \in {"KeyPress", "KeyRelease"} /\ e.key = "Escape"

\* lines 216-260: the value eventFilter returns
FilterResult(obj, e) ==
    IF obj # AppObj /\ e.type = "Show" THEN FALSE
    ELSE IF e.type = "MouseButtonPress" THEN FALSE
    ELSE IF e.type = "KeyPress" THEN FALSE
    ELSE IF e.type = "KeyRelease" THEN (IF e.key # "Escape" THEN FALSE ELSE TRUE)
    ELSE FALSE

\* a shareEvent that leaves the filter installed while it forwards
RemoveEventFilter_Forgotten(installed) == installed

\* line 292: removeEventFilter(this)
RemoveEventFilter(installed) == FALSE

\* a shareEvent that does not install the filter again
InstallEventFilter_Forgotten(installed) == installed

\* line 300: installEventFilter(this)
InstallEventFilter(installed) == TRUE

\* a loop that leaves the flag as the last view set it
SetAccepted_Forgotten(accepted, afterDelivery) == afterDelivery

\* line 297: e->setAccepted(accepted)
SetAccepted(accepted, afterDelivery) == accepted

\* The state shareEvent works on: whether the filter is installed, the
\* accepted flag of the event, and the deliveries made so far.  acc[v] is
\* the accepted flag the event has after view v has handled it.
RECURSIVE ShareEvent(_, _, _, _, _)
RECURSIVE ForwardLoop(_, _, _, _, _, _, _)
RECURSIVE SendEvent(_, _, _, _, _)

\* Application::shareEvent(e, from), lines 283-302
ShareEvent(e, from, st, acc, depth) ==
    IF from # NoView /\ from \in Range(m_views)
    THEN LET removed == [st EXCEPT !.installed = RemoveEventFilter(st.installed)]
             done    == ForwardLoop(e, from, 1, removed, st.accepted, acc, depth)
         IN  [done EXCEPT !.installed = InstallEventFilter(done.installed)]
    ELSE st

\* lines 294-299: the loop over m_views, from its i-th view on
ForwardLoop(e, from, i, st, accepted, acc, depth) ==
    IF i > Len(m_views) THEN st
    ELSE IF m_views[i] = from
    THEN ForwardLoop(e, from, i + 1, st, accepted, acc, depth)
    ELSE LET after == SendEvent(e, m_views[i], st, acc, depth)
         IN  ForwardLoop(e, from, i + 1,
                         [after EXCEPT !.accepted = SetAccepted(accepted, after.accepted)],
                         accepted, acc, depth)

\* line 296: QCoreApplication::sendEvent(view, e).  An installed filter
\* sees the event first (and may share it again); unless the filter
\* consumes it, the view then handles it
SendEvent(e, v, st, acc, depth) ==
    LET filtered == IF st.installed /\ Shares(e) /\ depth < MaxDepth
                    THEN ShareEvent(e, AsView(v), st, acc, depth + 1)
                    ELSE st
    IN  IF st.installed /\ FilterResult(v, e)
        THEN filtered
        ELSE [filtered EXCEPT !.sent[v] = @ + 1, !.accepted = acc[v]]

\* Application::eventFilter(obj, event): the window system delivers event
\* e to obj while the filter is installed; c is QCursor::pos()
EventFilter(obj, e, c, acc) ==
    /\ Idle
    /\ MoreEvents
    /\ events' = events + 1
    /\ filterInstalled
    /\ obj \in ViewIds => view[obj].state = "live"
    /\ LET st0 == [installed |-> filterInstalled, accepted |-> e.accepted, sent |-> NoSent]
           st  == IF obj # AppObj /\ e.type = "Show" THEN st0
                  ELSE IF e.type = "MouseButtonPress" THEN st0
                  ELSE IF Shares(e) THEN ShareEvent(e, AsView(obj), st0, acc, 1)
                  ELSE st0
           about == IF e.type = "MouseButtonPress" THEN GetActiveScreen(m_views, view, c)
                    ELSE AsView(obj)
       IN  /\ filterInstalled' = st.installed
           /\ lastCall' = [Call("eventFilter") EXCEPT !.flag = FilterResult(obj, e),
                              !.view = about, !.type = e.type, !.key = e.key,
                              !.sent = st.sent, !.kept = (st.accepted = e.accepted)]
    /\ UNCHANGED <<screens, screenObj, nextScreen, m_views, view, nextView,
                   m_testing, setupDone, queue, anis, succeeded, proc>>

Next ==
    \/ InitialViewSetup
    \/ \E g \in ScreenGeos, primary \in BOOLEAN : ScreenAdded(g, primary)
    \/ \E i \in 1..MaxScreens : ScreenRemoved(i)
    \/ \E s \in ScreenIds : ScreenDestroyed(s)
    \/ \E i \in 2..MaxScreens : PrimaryChanged(i)
    \/ \E s \in ScreenIds, g \in ScreenGeos : GeometryChanged(s, g)
    \/ \E sig \in {"succeeded", "failed"} : AuthenticatorSignal(sig)
    \/ \E v \in ViewIds : FrameSwapped(v)
    \/ DeferredDelete
    \/ OnSucceeded
    \/ \E a \in anis, y \in -1..1, crash \in BOOLEAN : AnimationStep(a, y, crash)
    \/ \E a \in anis, crash \in BOOLEAN : AnimationFinished(a, crash)
    \/ \E c \in CursorPositions : GetFocus(c)
    \/ \E crash \in BOOLEAN : MarkViewsAsVisible(crash)
    \/ \E obj \in Receivers, e \in Events :
         \E c \in (IF e.type = "MouseButtonPress" THEN CursorPositions ELSE {<<0, 0>>}),
            acc \in (IF Shares(e) /\ obj \in Range(m_views) THEN Acceptances(m_views)
                     ELSE {[v \in ViewIds |-> TRUE]}) :
              EventFilter(obj, e, c, acc)

Spec == Init /\ [][Next]_vars

\* The event loop keeps running: it delivers the posted event at the head of
\* its queue, Qt finishes the removal of a screen, and a started animation
\* reaches its end.  What the environment does is not forced.
Fairness ==
    /\ WF_vars(\E s \in ScreenIds : ScreenDestroyed(s))
    /\ WF_vars(DeferredDelete)
    /\ WF_vars(OnSucceeded)
    /\ WF_vars(\E c \in CursorPositions : GetFocus(c))
    /\ WF_vars(\E crash \in BOOLEAN : MarkViewsAsVisible(crash))
    /\ WF_vars(\E a \in anis, crash \in BOOLEAN : AnimationFinished(a, crash))

FairSpec == Spec /\ Fairness

\* ------------------------------------------------------------ properties
\* the handlers that end with a call of desktopResized
ResizeOps == {"initialViewSetup", "onScreenAdded", "desktopResized"}

\* the event eventFilter saw last is one it hands to shareEvent
LastShared ==
    /\ lastCall.op = "eventFilter"
    /\ Shares([type |-> lastCall.type, key |-> lastCall.key, accepted |-> TRUE])

\* C1: once initialViewSetup has run, m_views has as many views as
\* screens() has screens, whatever screens were added and removed.
C1_OneViewPerScreen ==
    setupDone => Len(m_views) = Len(screens)

C1_Witness ==
    /\ setupDone
    /\ lastCall.op = "desktopResized"
    /\ Len(m_views) = 1
    /\ nextView = 3

\* C2: after a call of desktopResized the view m_views[i] is on the screen
\* screens()[i] for every screen index i, so every screen has a view and
\* no two views share a screen.
C2_ViewsFollowScreens ==
    lastCall.op \in ResizeOps =>
        /\ \A i \in 1..Len(screens) :
              i <= Len(m_views) /\ view[m_views[i]].screen = screens[i]
        /\ \A i, j \in 1..Len(m_views) :
              i # j => view[m_views[i]].screen # view[m_views[j]].screen

C2_Witness ==
    /\ setupDone
    /\ nextView = 3
    /\ lastCall.op = "desktopResized"
    /\ m_views = <<1>>
    /\ screens = <<2>>
    /\ view[1].screen = 2

\* C3: after the authenticator has emitted succeeded the process exits
\* through QCoreApplication::exit(): after the slide-out animation of the
\* primary screen's view, or at once when there is no such view.
C3_ExitsAfterSucceeded ==
    (succeeded > 0) ~> (proc = "exited")

\* C4: QCoreApplication::exit() is called only after the authenticator has
\* emitted succeeded; screen, key, mouse and frame events never lead there.
C4_ExitOnlyAfterSucceeded ==
    proc = "exited" => succeeded > 0

C4_Witness ==
    /\ proc = "exited"
    /\ succeeded > 0
    /\ lastCall.op = "finished"

\* C5: a KeyPress, or a KeyRelease of another key than Escape, addressed to
\* a view of m_views is sent exactly once to every other view of m_views,
\* never to the view it came from and never to any other view.
C5_ForwardedOnce ==
    (LastShared /\ lastCall.view \in Range(m_views)) =>
        \A v \in ViewIds :
            lastCall.sent[v] = IF v \in Range(m_views) /\ v # lastCall.view THEN 1 ELSE 0

C5_Witness ==
    /\ LastShared
    /\ Len(m_views) = 2
    /\ lastCall.view = m_views[2]
    /\ lastCall.sent[m_views[1]] = 1

\* the screen whose geometry a step changes
GeometryChangedOf(s) ==
    /\ lastCall'.op = "screenGeometryChanged"
    /\ screenObj[s].alive /\ screenObj'[s].alive
    /\ screenObj'[s].geometry # screenObj[s].geometry

\* C6: screenGeometryChanged for a screen that is not in screens(), or
\* whose index is not below m_views.size(), warns and changes neither
\* m_views nor the geometry of any view.
C6_GuardedGeometryChange ==
    [][\A s \in ScreenIds :
         (GeometryChangedOf(s) /\ (s \notin Range(screens) \/ IndexOf(screens, s) >= Len(m_views)))
            => (lastCall'.flag /\ m_views' = m_views /\ view' = view)]_vars

C6_Witness ==
    /\ lastCall.op = "screenGeometryChanged"
    /\ lastCall.flag
    /\ \E s \in ScreenIds : Removing(s) /\ screenObj[s].conns > 0

\* C7: a geometry change of the screen that is now at index k of screens(),
\* k below m_views.size(), gives the new geometry to m_views[k] and changes
\* no other view.
C7_GeometryGoesToIndexedView ==
    [][\A s \in ScreenIds :
         (GeometryChangedOf(s) /\ s \in Range(screens) /\ IndexOf(screens, s) < Len(m_views))
            => /\ ~lastCall'.flag
               /\ m_views' = m_views
               /\ view' = [view EXCEPT ![m_views[IndexOf(screens, s) + 1]].geometry
                                          = screenObj'[s].geometry]]_vars

C7_Witness ==
    /\ lastCall.op = "screenGeometryChanged"
    /\ ~lastCall.flag
    /\ setupDone
    /\ screens = <<2, 1>>
    /\ m_views = <<1, 2>>
    /\ view[1].screen = 1
    /\ view[1].geometry = screenObj[2].geometry
    /\ view[2].geometry # screenObj[2].geometry

\* C8: when the handlers of all screen changes have run, every view
\* m_views[i] has the geometry of screens()[i].
C8_ViewsCoverScreens ==
    (setupDone /\ Idle /\ succeeded = 0) =>
        \A i \in 1..Len(m_views) :
            i <= Len(screens) /\ view[m_views[i]].geometry = screenObj[screens[i]].geometry

\* C9 as stated: when exit is called no view holds the keyboard grab any
\* more, and a view that desktopResized took off m_views does not hold it.
C9_GrabReleased ==
    /\ proc = "exited" => \A v \in ViewIds : ~view[v].grab
    /\ \A v \in ViewIds : (view[v].state = "live" /\ v \notin Range(m_views)) => ~view[v].grab

\* C9 amended: the controller only enables the keyboard grab; a view that
\* holds the grab keeps it for as long as the view object exists.
C9_GrabKeptWhileAlive ==
    [][\A v \in ViewIds : (view[v].grab /\ view'[v].state = "live") => view'[v].grab]_vars

C9_Witness ==
    \E v \in ViewIds :
        /\ view[v].grab
        /\ view[v].state = "live"
        /\ v \notin Range(m_views)

\* C10: between two handlers the application-wide event filter is
\* installed: after the constructor and after every return of shareEvent.
C10_FilterInstalled ==
    filterInstalled

C10_Witness ==
    /\ filterInstalled
    /\ LastShared
    /\ lastCall.view \in Range(m_views)
    /\ \E v \in ViewIds : lastCall.sent[v] > 0

\* C11: eventFilter returns true exactly for a KeyRelease of Escape, and it
\* never hands that event to shareEvent; every other event is passed on.
C11_ConsumesOnlyEscapeRelease ==
    lastCall.op = "eventFilter" =>
        /\ lastCall.flag <=> (lastCall.type = "KeyRelease" /\ lastCall.key = "Escape")
        /\ (lastCall.type = "KeyRelease" /\ lastCall.key = "Escape") => lastCall.sent = NoSent
        /\ lastCall.type \in {"Show", "MouseButtonPress", "KeyPress", "Other"} => ~lastCall.flag

C11_Witness ==
    /\ lastCall.op = "eventFilter"
    /\ lastCall.flag
    /\ lastCall.type = "KeyRelease"
    /\ lastCall.key = "Escape"
    /\ Len(m_views) = 2
    /\ lastCall.view \in Range(m_views)

\* C12: every screen has at most one geometryChanged connection to
\* screenGeometryChanged, in whatever order initialViewSetup and
\* onScreenAdded ran, so a geometry change calls the handler once.
C12_ConnectedOnce ==
    \A s \in ScreenIds : screenObj[s].conns <= 1

\* C13: onSucceeded never runs inside the emission of succeeded: the
\* emission only posts the call, neither starts the animation nor exits,
\* and onSucceeded runs in a later turn of the event loop, when the
\* handlers connected directly to the signal have returned.
C13_OnSucceededIsQueued ==
    [][succeeded' > succeeded =>
          /\ lastCall'.op # "onSucceeded"
          /\ proc' = proc
          /\ anis' = anis
          /\ queue' = Append(queue, [type |-> "onSucceeded", view |-> NoView])]_vars

C13_Witness ==
    /\ lastCall.op = "onSucceeded"
    /\ succeeded = 1
    /\ anis # {}
    /\ queue = <<>>

\* C14: the queued markViewsAsVisible(view) never runs for a view that
\* desktopResized has taken off m_views or that has been destroyed.
C14_MarkOnlyViewsInUse ==
    lastCall.op = "markViewsAsVisible" =>
        /\ lastCall.view \in Range(m_views)
        /\ view[lastCall.view].state = "live"

\* a queued markViewsAsVisible(v) is waiting in the event loop
MarkPending(v) ==
    \E i \in 1..Len(queue) : queue[i] = [type |-> "markViewsAsVisible", view |-> v]

\* a queued getFocus is waiting in the event loop
FocusPending ==
    \E i \in 1..Len(queue) : queue[i].type = "getFocus"

\* C15: a view of m_views that has swapped a frame gets viewVisible = true
\* for as long as it stays in m_views and the process has not exited, and
\* the getFocus call queued by that write is executed.
C15_VisibleThenFocus ==
    /\ \A v \in ViewIds :
          (MarkPending(v) /\ v \in Range(m_views))
             ~> (view[v].visible \/ v \notin Range(m_views) \/ proc = "exited")
    /\ FocusPending ~> (lastCall.op = "getFocus" \/ proc = "exited")

\* a step in which the event loop runs the queued getFocus
GetFocusStep ==
    /\ queue # <<>>
    /\ Head(queue).type = "getFocus"
    /\ queue' = Tail(queue)
    /\ lastCall'.op = "getFocus"

\* C16: getFocus does nothing when m_views is empty; otherwise it requests
\* the activation of one view of m_views and, unless testing, enables the
\* keyboard grab of every view of m_views and of no other view; in testing
\* mode it changes no grab, so no view ever holds the grab in testing mode.
C16_GetFocusGrabs ==
    /\ [](m_testing => \A v \in ViewIds : ~view[v].grab)
    /\ [][GetFocusStep =>
            IF m_views = <<>>
            THEN view' = view /\ ~lastCall'.flag
            ELSE /\ lastCall'.flag
                 /\ lastCall'.view \in Range(m_views)
                 /\ \A v \in ViewIds :
                      view'[v] = [view[v] EXCEPT
                                    !.grab = @ \/ (~m_testing /\ v \in Range(m_views))]]_vars

C16_Witness ==
    /\ m_testing
    /\ lastCall.op = "getFocus"
    /\ lastCall.flag
    /\ Len(m_views) = 2
    /\ \A v \in ViewIds : ~view[v].grab

\* r is what the claim says getActiveScreen returns with the cursor at c
IsActiveScreen(r, c) ==
    /\ (r = NoView) <=> (m_views = <<>>)
    /\ r # NoView =>
         \E i \in 1..Len(m_views) :
            /\ m_views[i] = r
            /\ IF \E j \in 1..Len(m_views) : Contains(view[m_views[j]].geometry, c)
               THEN /\ Contains(view[r].geometry, c)
                    /\ \A j \in 1..(i - 1) : ~Contains(view[m_views[j]].geometry, c)
               ELSE i = 1

\* C17: getActiveScreen returns null iff m_views is empty; otherwise the
\* lowest-index view of m_views whose geometry contains the cursor, or the
\* first view when none does; a non-null result is a member of m_views.
\* This holds for every cursor position in every state, and for the view
\* getFocus and the mouse-press branch of eventFilter obtained from it.
C17_ActiveScreen ==
    /\ \A c \in CursorPositions : IsActiveScreen(GetActiveScreen(m_views, view, c), c)
    /\ (\/ lastCall.op = "getFocus"
        \/ lastCall.op = "eventFilter" /\ lastCall.type = "MouseButtonPress")
          => /\ \E c \in CursorPositions : IsActiveScreen(lastCall.view, c)
             /\ lastCall.view # NoView => lastCall.view \in Range(m_views)

C17_Witness ==
    /\ lastCall.op = "getFocus"
    /\ Len(m_views) = 2
    /\ view[m_views[1]].geometry = view[m_views[2]].geometry
    /\ view[m_views[1]].geometry # NullRect
    /\ lastCall.view = m_views[1]

\* s is a prefix of t
IsPrefix(s, t) == Len(s) <= Len(t) /\ s = SubSeq(t, 1, Len(s))

\* C18: m_views only grows and shrinks at its end.  In every step the list
\* before is a prefix of the list after or the list after is a prefix of
\* the list before; desktopResized leaves it with one view per screen, so
\* with fewer screens the list after is a prefix of the list before
\* (whichever screen was removed) and with more screens the list before is
\* a prefix of the list after, and the views added are new ones.
C18_GrowsAndShrinksAtEnd ==
    [][/\ IsPrefix(m_views, m_views') \/ IsPrefix(m_views', m_views)
       /\ lastCall'.op \in ResizeOps =>
            /\ Len(screens') <= Len(m_views) => IsPrefix(m_views', m_views)
            /\ Len(screens') >= Len(m_views) => IsPrefix(m_views, m_views')
            /\ \A i \in (Len(m_views) + 1)..Len(m_views') :
                  view[m_views'[i]].state = "unborn"]_vars

C18_Witness ==
    /\ lastCall.op = "desktopResized"
    /\ m_views = <<1>>
    /\ screens = <<2>>
    /\ queue # <<>>
    /\ queue[Len(queue)] = [type |-> "deferredDelete", view |-> 2]
    /\ view[2].state = "live"

\* C19: shareEvent leaves the accepted flag of the event as it found it,
\* whatever the views it forwarded the event to did with the flag; and
\* with from null or not in m_views it sends nothing and changes nothing:
\* no delivery is made and the filter stays installed.  This is stated for
\* the call eventFilter made last and, for every m_views that desktopResized
\* leaves (shareEvent reads nothing else of the state), for every event,
\* sender and behaviour of the views.
C19_AcceptedFlagKept ==
    /\ LastShared =>
          /\ lastCall.kept
          /\ lastCall.view \notin Range(m_views) =>
                lastCall.sent = NoSent /\ filterInstalled
    /\ lastCall.op \in ResizeOps =>
         \A e \in {ev \in Events : Shares(ev)}, from \in ViewIds \cup {NoView},
            acc \in Acceptances(m_views) :
          LET st0 == [installed |-> TRUE, accepted |-> e.accepted, sent |-> NoSent]
              st  == ShareEvent(e, from, st0, acc, 1)
          IN  /\ st.accepted = e.accepted
              /\ from \notin Range(m_views) => st = st0

C19_Witness ==
    /\ LastShared
    /\ lastCall.kept
    /\ Len(m_views) = 2
    /\ lastCall.view = m_views[1]
    /\ lastCall.sent[m_views[2]] = 1
    /\ lastCall.sent[m_views[1]] = 0

====
